---------------------------- MODULE Spec2Model ----------------------------
(***************************************************************************)
(* Purchase settlement and lifecycle engine of PremiumHubStore-Backend.    *)
(*                                                                         *)
(* The store holds Purchase and Payment documents.  Every route handler is *)
(* a request that runs in steps, one step per awaited store call, so that  *)
(* two requests in flight interleave exactly at their await points.        *)
(* Strings (order ids) are sequences of one-character strings, so that     *)
(* split, parseInt, padStart and the store's string ordering are computed  *)
(* the way the code computes them.                                         *)
(***************************************************************************)
EXTENDS Integers, Sequences, FiniteSets

VARIABLES
  purchases,     \* Purchase collection: purchase id -> document or NoDoc
  payments,      \* Payment collection: payment id -> document or NoDoc
  nextPurchase,  \* number of purchase ids handed out so far (ids are never reused)
  nextPayment,   \* number of payment ids handed out so far
  req,           \* the requests in flight: slot -> handler position and locals
  year,          \* what new Date().getFullYear() returns now
  lastRec        \* history: the purchase as the last reconciliation left it (doc) and as
                 \* the one before left it (prev), while the store did not change between

vars == <<purchases, payments, nextPurchase, nextPayment, req, year, lastRec>>

-----------------------------------------------------------------------------
(* Bounds of the model *)

MaxPurchases == 2

MaxPayments == 2

MaxTotal == 2

MaxAmount == 2

MaxIds == 3

NumSlots == 2

FirstYear == 2025

MaxMonths == 13

BlockLen == 2

MaxSecretLen == 2

MaxTime == 2

MaxUses == 2

-----------------------------------------------------------------------------
(* Strings *)

DigitChars == <<"0", "1", "2", "3", "4", "5", "6", "7", "8", "9">>

IsDigit(c) == \E i \in 1..10 : DigitChars[i] = c

DigitValue(c) == (CHOOSE i \in 1..10 : DigitChars[i] = c) - 1

\* code unit of a character, for the store's binary string ordering
CharCode(c) ==
  IF c = "-" THEN 45
  ELSE IF IsDigit(c) THEN 48 + DigitValue(c)
  ELSE IF c = "A" THEN 65
  ELSE IF c = "H" THEN 72
  ELSE IF c = "P" THEN 80
  ELSE IF c = "Q" THEN 81
  ELSE 88

RECURSIVE ToString(_)
\* Number.prototype.toString() of a non-negative integer
ToString(n) ==
  IF n < 10 THEN <<DigitChars[n + 1]>>
  ELSE ToString(n \div 10) \o <<DigitChars[(n % 10) + 1]>>

RECURSIVE PadStart(_, _, _)
\* String.prototype.padStart(w, c)
PadStart(s, w, c) == IF Len(s) >= w THEN s ELSE PadStart(<<c>> \o s, w, c)

RECURSIVE Split(_, _)
\* String.prototype.split(sep) for a one-character separator
Split(s, sep) ==
  IF \A i \in 1..Len(s) : s[i] # sep THEN <<s>>
  ELSE LET k == CHOOSE i \in 1..Len(s) : s[i] = sep /\ \A j \in 1..(i - 1) : s[j] # sep
       IN <<SubSeq(s, 1, k - 1)>> \o Split(SubSeq(s, k + 1, Len(s)), sep)

RECURSIVE DigitsValue(_)
DigitsValue(s) ==
  IF s = <<>> THEN 0
  ELSE 10 * DigitsValue(SubSeq(s, 1, Len(s) - 1)) + DigitValue(s[Len(s)])

\* length of the longest prefix of s made of digits
DigitPrefixLen(s) ==
  CHOOSE k \in 0..Len(s) :
    /\ \A i \in 1..k : IsDigit(s[i])
    /\ (k < Len(s) => ~IsDigit(s[k + 1]))

\* parseInt(s) on strings of letters and digits: <<n>> for a number, <<>> for NaN
ParseInt(s) ==
  LET k == DigitPrefixLen(s)
  IN IF k = 0 THEN <<>> ELSE <<DigitsValue(SubSeq(s, 1, k))>>

isNaN(x) == x = <<>>

StartsWith(s, p) == Len(s) >= Len(p) /\ SubSeq(s, 1, Len(p)) = p

\* a < b in the store's string order (code units, a proper prefix first)
StrLess(a, b) ==
  \E k \in 1..(Len(b)) :
    /\ k <= Len(a) + 1
    /\ \A i \in 1..(k - 1) : a[i] = b[i]
    /\ (k = Len(a) + 1 \/ (k <= Len(a) /\ CharCode(a[k]) < CharCode(b[k])))

-----------------------------------------------------------------------------
(* Order ID sequencer *)

Hyphen == <<"-">>

\* width of the zero-padded sequence number
PadWidth == 5

\* the documents whose orderId matches the regex ^{prefix}-{yearStr}-
MatchingIds(ids, prefix, yearStr) ==
  {id \in ids : StartsWith(id, prefix \o Hyphen \o yearStr \o Hyphen)}

\* findOne(...).sort({ orderId: -1 }): the greatest matching orderId, <<>> for null
LatestOrderId(ids, prefix, yearStr) ==
  LET m == MatchingIds(ids, prefix, yearStr)
  IN IF m = {} THEN <<>>
     ELSE CHOOSE id \in m : \A o \in m : o = id \/ StrLess(o, id)

NextNumber(latest) ==
  IF latest = <<>> THEN 1
  ELSE LET parts == Split(latest, "-")
       IN IF Len(parts) >= 3
          THEN LET currentNumber == ParseInt(parts[3])
               IN IF ~isNaN(currentNumber) THEN currentNumber[1] + 1 ELSE 1
          ELSE 1

FormatOrderId(prefix, yearStr, n) ==
  prefix \o Hyphen \o yearStr \o Hyphen \o PadStart(ToString(n), PadWidth, "0")

\* generateOrderId(prefix) against a collection whose order ids are ids, in year yr
generateOrderId(ids, prefix, yr) ==
  LET yearStr == ToString(yr)
  IN FormatOrderId(prefix, yearStr, NextNumber(LatestOrderId(ids, prefix, yearStr)))

-----------------------------------------------------------------------------
(* Documents and inputs *)

\* what a lookup returns when there is no document (null)
NoDoc == [missing |-> TRUE]

\* no reconciliation on record
NoRec == [pid |-> 0, doc |-> NoDoc, prev |-> NoDoc]

\* purchase ids; id 0 is never handed out and resolves to no document
PurchaseIds == 0..MaxPurchases

PaymentIds == 1..MaxPayments

Slots == 1..NumSlots

Types == {"CLIENT", "VENDOR"}

Statuses == {"OPEN", "COMPLETED", "CANCELLED"}

\* the totals a purchase is created or patched with: nothing owed, or MaxTotal
Totals == {0, MaxTotal}

Amounts == 1..MaxAmount

Years == FirstYear..(FirstYear + 1)

PH == <<"P", "H">>

Prefixes == {PH, <<"P">>}

\* order ids a client may supply itself in the request body
SuppliedOrderIds ==
  {FormatOrderId(PH, ToString(FirstYear), 1), FormatOrderId(<<"A", "X">>, ToString(FirstYear), 1)}

\* the order ids of the persisted purchases
OrderIds(ps) == {ps[p].orderId : p \in {q \in DOMAIN ps : ps[q] # NoDoc}}

\* a request slot with no request in it
IdleReq ==
  [kind |-> "none", pc |-> "idle", pid |-> 0, payId |-> 0, oldPid |-> 0,
   orderId |-> <<>>, prefix |-> <<>>, attempts |-> 0,
   clientPaidPaise |-> 0, vendorPaidPaise |-> 0, doc |-> NoDoc, err |-> "none"]

Idle(r) == req[r].pc = "idle"

SetReq(r, v) == req' = [req EXCEPT ![r] = v]

Goto(r, to) == SetReq(r, [req[r] EXCEPT !.pc = to])

Fail(r, e) == SetReq(r, [req[r] EXCEPT !.pc = "failed", !.err = e])

\* a change of the store that is not the reconciler's ends the validity of lastRec
Touch ==
  lastRec' = IF payments' = payments /\ purchases' = purchases THEN lastRec ELSE NoRec

-----------------------------------------------------------------------------
(* Settlement reconciler: updatePurchaseSettlement *)

RECURSIVE SumAmounts(_, _)
\* reduce((sum, p) => sum + p.amountPaise, 0) over the payment ids in ids
SumAmounts(pays, ids) ==
  IF ids = {} THEN 0
  ELSE LET i == CHOOSE x \in ids : TRUE
       IN pays[i].amountPaise + SumAmounts(pays, ids \ {i})

\* PaymentsOf without the filter on the type
PaymentsOfAnyType(pays, pid, t) ==
  {i \in DOMAIN pays : pays[i] # NoDoc /\ pays[i].purchaseId = pid}

\* Payment.find({ purchaseId }) then filter(p => p.type === t)
PaymentsOf(pays, pid, t) ==
  {i \in DOMAIN pays : pays[i] # NoDoc /\ pays[i].purchaseId = pid /\ pays[i].type = t}

PaidTotal(pays, pid, t) == SumAmounts(pays, PaymentsOf(pays, pid, t))

\* NextStatus with the completion test strict: a due of exactly 0 does not complete
NextStatusStrict(status, clientDuePaise, vendorDuePaise) ==
  IF clientDuePaise < 0 /\ vendorDuePaise < 0 THEN "COMPLETED"
  ELSE IF status = "COMPLETED" /\ (clientDuePaise > 0 \/ vendorDuePaise > 0) THEN "OPEN"
  ELSE status

\* NextStatus without the way back from COMPLETED to OPEN
NextStatusNoRevert(status, clientDuePaise, vendorDuePaise) ==
  IF clientDuePaise <= 0 /\ vendorDuePaise <= 0 THEN "COMPLETED" ELSE status

\* the status the reconciler leaves in the document it holds
NextStatus(status, clientDuePaise, vendorDuePaise) ==
  IF clientDuePaise <= 0 /\ vendorDuePaise <= 0 THEN "COMPLETED"
  ELSE IF status = "COMPLETED" /\ (clientDuePaise > 0 \/ vendorDuePaise > 0) THEN "OPEN"
  ELSE status

\* PreSave with the dues clamped at 0
PreSaveClamped(d) ==
  LET Clamp(x) == IF x < 0 THEN 0 ELSE x
  IN [d EXCEPT !.clientDuePaise = Clamp(d.clientPayTotalPaise - d.clientPaidPaise),
               !.vendorDuePaise = Clamp(d.vendorPayTotalPaise - d.vendorPaidPaise)]

\* the pre-save hook's settlement dues
PreSave(d) ==
  [d EXCEPT !.clientDuePaise = d.clientPayTotalPaise - d.clientPaidPaise,
            !.vendorDuePaise = d.vendorPayTotalPaise - d.vendorPaidPaise]

\* Reconciled with the sums added to the paid amounts already stored
ReconciledAccumulating(d, clientPaidPaise, vendorPaidPaise) ==
  LET clientDuePaise == d.clientPayTotalPaise - (d.clientPaidPaise + clientPaidPaise)
      vendorDuePaise == d.vendorPayTotalPaise - (d.vendorPaidPaise + vendorPaidPaise)
  IN PreSave([d EXCEPT !.clientPaidPaise = @ + clientPaidPaise,
                       !.vendorPaidPaise = @ + vendorPaidPaise,
                       !.clientDuePaise = clientDuePaise,
                       !.vendorDuePaise = vendorDuePaise,
                       !.status = NextStatus(d.status, clientDuePaise, vendorDuePaise)])

\* the document the reconciler holds when it calls save(): settlement replaced,
\* status updated, pre-save hook run
Reconciled(d, clientPaidPaise, vendorPaidPaise) ==
  LET clientDuePaise == d.clientPayTotalPaise - clientPaidPaise
      vendorDuePaise == d.vendorPayTotalPaise - vendorPaidPaise
  IN PreSave([d EXCEPT !.clientPaidPaise = clientPaidPaise,
                       !.vendorPaidPaise = vendorPaidPaise,
                       !.clientDuePaise = clientDuePaise,
                       !.vendorDuePaise = vendorDuePaise,
                       !.status = NextStatus(d.status, clientDuePaise, vendorDuePaise)])

\* SaveModified that leaves the stored paid amounts as they are
SaveModifiedDuesOnly(stored, loaded, d) ==
  [stored EXCEPT !.clientDuePaise = d.clientDuePaise,
                 !.vendorDuePaise = d.vendorDuePaise,
                 !.status = IF d.status # loaded.status THEN d.status ELSE stored.status]

\* purchase.save() of a loaded document: the update sets the modified paths
\* only, here the settlement subtree and the status when it changed
SaveModified(stored, loaded, d) ==
  [stored EXCEPT !.clientPaidPaise = d.clientPaidPaise,
                 !.vendorPaidPaise = d.vendorPaidPaise,
                 !.clientDuePaise = d.clientDuePaise,
                 !.vendorDuePaise = d.vendorDuePaise,
                 !.status = IF d.status # loaded.status THEN d.status ELSE stored.status]

\* a caller invokes updatePurchaseSettlement(p) on its own
ReconcileCall(r) ==
  /\ Idle(r)
  /\ \E p \in PurchaseIds :
       SetReq(r, [IdleReq EXCEPT !.kind = "Reconcile", !.pc = "rec_payments", !.pid = p])
  /\ UNCHANGED <<purchases, payments, nextPurchase, nextPayment, year, lastRec>>

\* const payments = await Payment.find({ purchaseId }), and the two sums
RecReadPayments(r) ==
  /\ req[r].pc = "rec_payments"
  /\ SetReq(r, [req[r] EXCEPT !.pc = "rec_purchase",
                              !.clientPaidPaise = PaidTotal(payments, req[r].pid, "CLIENT"),
                              !.vendorPaidPaise = PaidTotal(payments, req[r].pid, "VENDOR")])
  /\ UNCHANGED <<purchases, payments, nextPurchase, nextPayment, year, lastRec>>

\* RecReadPurchase without the test for null: the reconciler goes on to save
RecReadPurchaseUnchecked(r) ==
  /\ req[r].pc = "rec_purchase"
  /\ SetReq(r, [req[r] EXCEPT !.pc = "rec_save", !.doc = purchases[req[r].pid]])
  /\ UNCHANGED <<purchases, payments, nextPurchase, nextPayment, year, lastRec>>

\* const purchase = await Purchase.findById(purchaseId); throws when there is none
RecReadPurchase(r) ==
  /\ req[r].pc = "rec_purchase"
  /\ IF purchases[req[r].pid] = NoDoc
     THEN Fail(r, "Purchase not found")
     ELSE SetReq(r, [req[r] EXCEPT !.pc = "rec_save", !.doc = purchases[req[r].pid]])
  /\ UNCHANGED <<purchases, payments, nextPurchase, nextPayment, year, lastRec>>

\* dues, settlement, status, then await purchase.save() (which fails when the
\* document was deleted meanwhile)
RecSave(r) ==
  /\ req[r].pc = "rec_save"
  /\ LET p == req[r].pid
         d == Reconciled(req[r].doc, req[r].clientPaidPaise, req[r].vendorPaidPaise)
     IN IF purchases[p] = NoDoc
        THEN /\ Fail(r, "DocumentNotFoundError")
             /\ UNCHANGED <<purchases, lastRec>>
        ELSE /\ purchases' = [purchases EXCEPT ![p] = SaveModified(purchases[p], req[r].doc, d)]
             /\ lastRec' = [pid |-> p, doc |-> purchases'[p],
                             prev |-> IF lastRec.pid = p THEN lastRec.doc ELSE NoDoc]
             /\ Goto(r, "done")
  /\ UNCHANGED <<payments, nextPurchase, nextPayment, year>>

-----------------------------------------------------------------------------
(* Payment routes.  A request's inputs are drawn at the step that first reads *)
(* them.                                                                      *)

\* POST /payments: const purchase = await Purchase.findById(req.body.purchaseId),
\* 404 when there is none; else new Payment(...) gets its id
PaymentPostFind(r) ==
  /\ Idle(r)
  /\ nextPayment < MaxPayments
  /\ \E p \in PurchaseIds :
       IF purchases[p] = NoDoc
       THEN /\ SetReq(r, [IdleReq EXCEPT !.kind = "PaymentPost", !.pc = "failed", !.pid = p,
                                         !.err = "PURCHASE_NOT_FOUND"])
            /\ UNCHANGED nextPayment
       ELSE /\ SetReq(r, [IdleReq EXCEPT !.kind = "PaymentPost", !.pc = "pay_save", !.pid = p,
                                         !.payId = nextPayment + 1])
            /\ nextPayment' = nextPayment + 1
  /\ UNCHANGED <<purchases, payments, nextPurchase, year, lastRec>>

\* await payment.save(), then updatePurchaseSettlement(req.body.purchaseId)
PaymentPostSave(r) ==
  /\ req[r].pc = "pay_save"
  /\ \E t \in Types, a \in Amounts :
       payments' = [payments EXCEPT ![req[r].payId] =
                      [purchaseId |-> req[r].pid, type |-> t, amountPaise |-> a]]
  /\ Goto(r, "rec_payments")
  /\ UNCHANGED <<purchases, nextPurchase, nextPayment, year>>
  /\ Touch

\* the fields of a PATCH /payments/:id body: any subset of purchaseId, type, amountPaise
PaymentPatched(doc, has, p, t, a) ==
  [purchaseId |-> IF "purchaseId" \in has THEN p ELSE doc.purchaseId,
   type |-> IF "type" \in has THEN t ELSE doc.type,
   amountPaise |-> IF "amountPaise" \in has THEN a ELSE doc.amountPaise]

\* PATCH /payments/:id: Payment.findByIdAndUpdate(id, req.body) and populate
\* (404 when there is no such payment, a TypeError on payment.purchaseId._id when
\* its purchase does not exist), then updatePurchaseSettlement(payment.purchaseId._id)
PaymentPatch(r) ==
  /\ Idle(r)
  /\ UNCHANGED <<purchases, nextPurchase, nextPayment, year>>
  /\ \E i \in PaymentIds :
       IF payments[i] = NoDoc
       THEN /\ SetReq(r, [IdleReq EXCEPT !.kind = "PaymentPatch", !.pc = "failed",
                                         !.payId = i, !.err = "PAYMENT_NOT_FOUND"])
            /\ UNCHANGED <<payments, lastRec>>
       ELSE \E has \in SUBSET {"purchaseId", "type", "amountPaise"} :
            \E p \in IF "purchaseId" \in has THEN 0..nextPurchase ELSE {0} :
            \E t \in IF "type" \in has THEN Types ELSE {"CLIENT"} :
            \E a \in IF "amountPaise" \in has THEN Amounts ELSE {1} :
              LET new == PaymentPatched(payments[i], has, p, t, a)
              IN /\ payments' = [payments EXCEPT ![i] = new]
                 /\ Touch
                 /\ IF purchases[new.purchaseId] = NoDoc
                    THEN SetReq(r, [IdleReq EXCEPT !.kind = "PaymentPatch", !.pc = "failed",
                                      !.payId = i, !.pid = new.purchaseId,
                                      !.oldPid = payments[i].purchaseId, !.err = "TypeError"])
                    ELSE SetReq(r, [IdleReq EXCEPT !.kind = "PaymentPatch",
                                      !.pc = "rec_payments", !.payId = i,
                                      !.pid = new.purchaseId,
                                      !.oldPid = payments[i].purchaseId])

\* DELETE /payments/:id: const payment = await Payment.findById(id), 404 when none
PaymentDeleteFind(r) ==
  /\ Idle(r)
  /\ \E i \in PaymentIds :
       IF payments[i] = NoDoc
       THEN SetReq(r, [IdleReq EXCEPT !.kind = "PaymentDelete", !.pc = "failed",
                                      !.payId = i, !.err = "PAYMENT_NOT_FOUND"])
       ELSE SetReq(r, [IdleReq EXCEPT !.kind = "PaymentDelete", !.pc = "pay_delete",
                                      !.payId = i, !.pid = payments[i].purchaseId])
  /\ UNCHANGED <<purchases, payments, nextPurchase, nextPayment, year, lastRec>>

\* await Payment.findByIdAndDelete(id), then updatePurchaseSettlement(purchaseId)
PaymentDeleteRemove(r) ==
  /\ req[r].pc = "pay_delete"
  /\ payments' = [payments EXCEPT ![req[r].payId] = NoDoc]
  /\ Goto(r, "rec_payments")
  /\ UNCHANGED <<purchases, nextPurchase, nextPayment, year>>
  /\ Touch

-----------------------------------------------------------------------------
(* Purchase routes *)

\* new Purchase(purchaseData): settlement at its defaults, then the pre-save hook
NewPurchase(orderId, clientPayTotalPaise, vendorPayTotalPaise, status) ==
  PreSave([orderId |-> orderId,
           clientPayTotalPaise |-> clientPayTotalPaise,
           vendorPayTotalPaise |-> vendorPayTotalPaise,
           clientPaidPaise |-> 0, vendorPaidPaise |-> 0,
           clientDuePaise |-> 0, vendorDuePaise |-> 0,
           status |-> status])

\* UniqueOrderId with no index on the collection
UniqueOrderIdUnchecked(ps, self, orderId) == TRUE

\* the unique index on orderId: no other document holds this order id
UniqueOrderId(ps, self, orderId) ==
  \A q \in DOMAIN ps : (q # self /\ ps[q] # NoDoc) => ps[q].orderId # orderId

\* a creator asks generateOrderId(prefix) for the order id it will send
PurchaseGenerateId(r, prefixes) ==
  /\ Idle(r)
  /\ \E prefix \in prefixes :
       SetReq(r, [IdleReq EXCEPT !.kind = "PurchasePost", !.pc = "pur_save",
                                 !.prefix = prefix,
                                 !.orderId = generateOrderId(OrderIds(purchases), prefix, year)])
  /\ UNCHANGED <<purchases, payments, nextPurchase, nextPayment, year, lastRec>>

\* a creator sends an order id of its own
PurchaseSupplyId(r, ids) ==
  /\ Idle(r)
  /\ \E o \in ids :
       SetReq(r, [IdleReq EXCEPT !.kind = "PurchasePost", !.pc = "pur_save", !.orderId = o])
  /\ UNCHANGED <<purchases, payments, nextPurchase, nextPayment, year, lastRec>>

\* POST /purchases: new Purchase(purchaseData); await purchase.save().  The insert
\* fails with a duplicate key error when the order id is taken; the handler passes
\* the error on.  The model holds at most limit purchases.
PurchasePostSave(r, limit, totals, statuses) ==
  /\ req[r].pc = "pur_save"
  /\ nextPurchase < limit
  /\ IF UniqueOrderId(purchases, 0, req[r].orderId)
     THEN /\ \E c \in totals, v \in totals, st \in statuses :
               purchases' = [purchases EXCEPT ![nextPurchase + 1] =
                               NewPurchase(req[r].orderId, c, v, st)]
          /\ nextPurchase' = nextPurchase + 1
          /\ SetReq(r, [req[r] EXCEPT !.pc = "done", !.pid = nextPurchase + 1,
                                      !.attempts = @ + 1])
     ELSE /\ SetReq(r, [req[r] EXCEPT !.pc = "failed", !.err = "DuplicateKey",
                                      !.attempts = @ + 1])
          /\ UNCHANGED <<purchases, nextPurchase>>
  /\ UNCHANGED <<payments, nextPayment, year>>
  /\ Touch

\* PATCH /purchases/:id with a body that holds the fields has (any of orderId,
\* amounts, status)
PurchasePatched(doc, has, o, c, v, st) ==
  [doc EXCEPT !.orderId = IF "orderId" \in has THEN o ELSE @,
              !.clientPayTotalPaise = IF "amounts" \in has THEN c ELSE @,
              !.vendorPayTotalPaise = IF "amounts" \in has THEN v ELSE @,
              !.status = IF "status" \in has THEN st ELSE @]

\* PATCH /purchases/:id: Purchase.findByIdAndUpdate(id, updateData): one atomic
\* update, no save hook; 404 when there is no such purchase
PurchasePatch(r, fields) ==
  /\ Idle(r)
  /\ UNCHANGED <<payments, nextPurchase, nextPayment, year>>
  /\ \E p \in PurchaseIds :
       IF purchases[p] = NoDoc
       THEN /\ SetReq(r, [IdleReq EXCEPT !.kind = "PurchasePatch", !.pc = "failed", !.pid = p,
                                         !.err = "PURCHASE_NOT_FOUND"])
            /\ UNCHANGED purchases
       ELSE \E has \in SUBSET fields :
            \E o \in IF "orderId" \in has THEN SuppliedOrderIds ELSE {<<>>} :
            \E c \in IF "amounts" \in has THEN Totals ELSE {0} :
            \E v \in IF "amounts" \in has THEN Totals ELSE {0} :
            \E st \in IF "status" \in has THEN Statuses ELSE {"OPEN"} :
              LET new == PurchasePatched(purchases[p], has, o, c, v, st)
              IN IF UniqueOrderId(purchases, p, new.orderId)
                 THEN /\ purchases' = [purchases EXCEPT ![p] = new]
                      /\ SetReq(r, [IdleReq EXCEPT !.kind = "PurchasePatch", !.pc = "done",
                                                   !.pid = p])
                 ELSE /\ UNCHANGED purchases
                      /\ SetReq(r, [IdleReq EXCEPT !.kind = "PurchasePatch", !.pc = "failed",
                                                   !.pid = p, !.err = "DuplicateKey"])
  /\ Touch

\* DELETE /purchases/:id: await Purchase.findByIdAndDelete(id), 404 when none
PurchaseDeleteRemove(r) ==
  /\ Idle(r)
  /\ \E p \in PurchaseIds :
       IF purchases[p] = NoDoc
       THEN /\ SetReq(r, [IdleReq EXCEPT !.kind = "PurchaseDelete", !.pc = "failed", !.pid = p,
                                         !.err = "PURCHASE_NOT_FOUND"])
            /\ UNCHANGED purchases
       ELSE /\ purchases' = [purchases EXCEPT ![p] = NoDoc]
            /\ SetReq(r, [IdleReq EXCEPT !.kind = "PurchaseDelete", !.pc = "pur_del_payments",
                                         !.pid = p])
  /\ UNCHANGED <<payments, nextPurchase, nextPayment, year>>
  /\ Touch

\* await Payment.deleteMany({ purchaseId: req.params.id })
PurchaseDeletePayments(r) ==
  /\ req[r].pc = "pur_del_payments"
  /\ payments' = [i \in DOMAIN payments |->
                    IF payments[i] # NoDoc /\ payments[i].purchaseId = req[r].pid
                    THEN NoDoc ELSE payments[i]]
  /\ Goto(r, "done")
  /\ UNCHANGED <<purchases, nextPurchase, nextPayment, year>>
  /\ Touch

\* the response is sent; the slot is free for the next request
Respond(r) ==
  /\ req[r].pc \in {"done", "failed"}
  /\ SetReq(r, IdleReq)
  /\ UNCHANGED <<purchases, payments, nextPurchase, nextPayment, year, lastRec>>

\* the calendar year changes
NewYear ==
  /\ year < FirstYear + 1
  /\ year' = year + 1
  /\ UNCHANGED <<purchases, payments, nextPurchase, nextPayment, req, lastRec>>

-----------------------------------------------------------------------------
(* Derived dates: the pre-save hook's validity and warranty end dates.  A date *)
(* is <<year, month, day>> in local time, the month counted from 0 as          *)
(* getMonth() counts it; an optional field is <<>> when it is not set, and an   *)
(* optional number is <<n>> when it is.                                        *)

Unset == <<>>

IsLeapYear(y) == y % 4 = 0 /\ (y % 100 # 0 \/ y % 400 = 0)

DaysInMonth(y, m) ==
  IF m = 1 THEN (IF IsLeapYear(y) THEN 29 ELSE 28)
  ELSE IF m \in {3, 5, 8, 10} THEN 30
  ELSE 31

RECURSIVE MakeDate(_, _, _)
\* the date that Date's MakeDay gives for a year, a month index of 0 or more and a
\* day of 1 or more: months past December carry into the year, days past the end
\* of the month carry into the next month
MakeDate(y, m, d) ==
  IF m > 11 THEN MakeDate(y + 1, m - 12, d)
  ELSE IF d > DaysInMonth(y, m) THEN MakeDate(y, m + 1, d - DaysInMonth(y, m))
  ELSE <<y, m, d>>

\* const end = new Date(start); end.setMonth(end.getMonth() + months)
AddMonths(start, months) == MakeDate(start[1], start[2] + months, start[3])

\* a record with the fields of both, those of extra first
With(d, extra) ==
  [f \in DOMAIN d \cup DOMAIN extra |-> IF f \in DOMAIN extra THEN extra[f] ELSE d[f]]

\* the pre-save hook's end dates: validity.endDate when durationMonths is truthy
\* and there is a start date, warranty.endDate when hasWarranty and months are
\* truthy (0 is not)
PreSaveDates(d) ==
  LET startDate == IF d.startDate # Unset THEN d.startDate ELSE d.purchaseDate
      validityEnd ==
        IF d.durationMonths # Unset /\ d.durationMonths[1] # 0 /\ startDate # Unset
        THEN AddMonths(startDate, d.durationMonths[1])
        ELSE d.validityEndDate
      warrantyEnd ==
        IF d.hasWarranty /\ d.months # Unset /\ d.months[1] # 0
        THEN AddMonths(d.purchaseDate, d.months[1])
        ELSE d.warrantyEndDate
  IN [d EXCEPT !.validityEndDate = validityEnd, !.warrantyEndDate = warrantyEnd]

\* the years of the purchase dates, a leap year among them
DateYears == {y \in (FirstYear - 4)..(FirstYear - 1) : IsLeapYear(y) \/ IsLeapYear(y + 1)}

\* the first day of a month and its possible last days
DateDays == {1, 28, 29, 30, 31}

Dates == {<<y, m, d>> : y \in DateYears, m \in 0..11, d \in DateDays} \cap
         {MakeDate(y, m, d) : y \in DateYears, m \in 0..11, d \in DateDays}

\* warranty.months: a non-negative integer; validity.durationMonths: a positive one
MonthCounts == {0, 1, MaxMonths}

\* new Purchase(purchaseData) with its dates: the end dates are no fields of the
\* request body and start unset
NewDatedPurchase(orderId, purchaseDate, startDate, durationMonths, hasWarranty, months) ==
  With(NewPurchase(orderId, MaxTotal, MaxTotal, "OPEN"),
       [purchaseDate |-> purchaseDate, startDate |-> startDate,
        durationMonths |-> durationMonths, validityEndDate |-> Unset,
        hasWarranty |-> hasWarranty, months |-> months, warrantyEndDate |-> Unset])

\* POST /purchases with a body that holds the dates: new Purchase(purchaseData);
\* await purchase.save(), the pre-save hook on the way
PurchasePostSaveDated(r, limit, startDates) ==
  /\ req[r].pc = "pur_save"
  /\ nextPurchase < limit
  /\ IF UniqueOrderId(purchases, 0, req[r].orderId)
     THEN /\ \E purchaseDate \in Dates, startDate \in startDates,
               durationMonths \in {Unset} \cup {<<n>> : n \in MonthCounts \ {0}},
               hasWarranty \in BOOLEAN, months \in {Unset} \cup {<<n>> : n \in MonthCounts} :
               purchases' = [purchases EXCEPT ![nextPurchase + 1] =
                 PreSaveDates(NewDatedPurchase(req[r].orderId, purchaseDate, startDate,
                                               durationMonths, hasWarranty, months))]
          /\ nextPurchase' = nextPurchase + 1
          /\ SetReq(r, [req[r] EXCEPT !.pc = "done", !.pid = nextPurchase + 1,
                                      !.attempts = @ + 1])
     ELSE /\ SetReq(r, [req[r] EXCEPT !.pc = "failed", !.err = "DuplicateKey",
                                      !.attempts = @ + 1])
          /\ UNCHANGED <<purchases, nextPurchase>>
  /\ UNCHANGED <<payments, nextPayment, year>>
  /\ Touch

\* the dates of a PATCH body, and of the purchase it is sent for
PatchDates == {dt \in Dates : dt[1] = FirstYear - 1 /\ dt[2] \in {0, 11} /\ dt[3] \in {1, 31}}

\* validity of a request body: durationMonths and startDate, each there or not
BodyValidities ==
  [durationMonths : {Unset} \cup {<<n>> : n \in MonthCounts \ {0}},
   startDate : {Unset} \cup PatchDates]

\* the update of findByIdAndUpdate(id, updateData) for a body that holds the
\* fields has (any of purchaseDate, validity): purchaseDate is set; validity, a
\* nested object, is set whole, in place of the stored one
PurchasePatchedDated(doc, has, purchaseDate, validity) ==
  [doc EXCEPT !.purchaseDate = IF "purchaseDate" \in has THEN purchaseDate ELSE @,
              !.startDate = IF "validity" \in has THEN validity.startDate ELSE @,
              !.durationMonths = IF "validity" \in has THEN validity.durationMonths ELSE @,
              !.validityEndDate = IF "validity" \in has THEN Unset ELSE @]

\* PATCH /purchases/:id with a body that holds dates: Purchase.findByIdAndUpdate,
\* one atomic update, no save hook; 404 when there is no such purchase
PurchasePatchDated(r) ==
  /\ Idle(r)
  /\ UNCHANGED <<payments, nextPurchase, nextPayment, year>>
  /\ \E p \in PurchaseIds :
       IF purchases[p] = NoDoc
       THEN /\ SetReq(r, [IdleReq EXCEPT !.kind = "PurchasePatch", !.pc = "failed", !.pid = p,
                                         !.err = "PURCHASE_NOT_FOUND"])
            /\ UNCHANGED purchases
       ELSE \E has \in SUBSET {"purchaseDate", "validity"} :
            \E purchaseDate \in IF "purchaseDate" \in has THEN PatchDates ELSE {Unset} :
            \E validity \in IF "validity" \in has THEN BodyValidities
                             ELSE {[durationMonths |-> Unset, startDate |-> Unset]} :
              /\ purchases' = [purchases EXCEPT ![p] =
                                PurchasePatchedDated(purchases[p], has, purchaseDate, validity)]
              /\ SetReq(r, [IdleReq EXCEPT !.kind = "PurchasePatch", !.pc = "done", !.pid = p,
                                           !.doc = [has |-> has]])
  /\ Touch

-----------------------------------------------------------------------------
(* Credential vault: encrypt and decrypt.  Bytes are 0..255.  The block cipher *)
(* is a stand-in for AES: a keyed permutation of the bytes of a block of       *)
(* BlockLen bytes, chained and padded the way CBC with PKCS#7 padding is.      *)

HexChars == DigitChars \o <<"a", "b", "c", "d", "e", "f">>

HexValue(c) == (CHOOSE i \in 1..16 : HexChars[i] = c) - 1

\* Buffer.toString('hex') / the cipher's 'hex' output encoding
ToHex(bytes) ==
  [i \in 1..(2 * Len(bytes)) |->
     IF i % 2 = 1 THEN HexChars[(bytes[(i + 1) \div 2] \div 16) + 1]
     ELSE HexChars[(bytes[i \div 2] % 16) + 1]]

\* the decipher's 'hex' input encoding, on a string of hex digits
FromHex(s) ==
  [i \in 1..(Len(s) \div 2) |-> 16 * HexValue(s[2 * i - 1]) + HexValue(s[2 * i])]

\* the characters whose code unit CharCode knows
KnownChars == {DigitChars[i] : i \in 1..10} \cup {"-", "A", "H", "P", "Q", "X"}

\* the 'utf8' input encoding of cipher.update, on strings of known characters
Utf8Encode(s) == [i \in 1..Len(s) |-> CharCode(s[i])]

\* the 'utf8' output encoding of decipher.update: a byte that is no known
\* character reads as "?"
Utf8Decode(bytes) ==
  [i \in 1..Len(bytes) |->
     IF \E c \in KnownChars : CharCode(c) = bytes[i]
     THEN CHOOSE c \in KnownChars : CharCode(c) = bytes[i]
     ELSE "?"]

\* the block cipher on one byte of a block, under key k: a permutation of 0..255
EncryptByte(k, b) == (5 * b + k) % 256

\* its inverse: 205 * 5 = 1 modulo 256
DecryptByte(k, c) == (205 * (c + 256 - k)) % 256

\* createCipher(algorithm, key) and createDecipher(algorithm, key) derive the
\* IV from the key itself; no IV is passed to them
DerivedIv(k) == [j \in 1..BlockLen |-> (k * (j + 2) + j) % 256]

\* PKCS#7: n bytes of value n, 1 <= n <= BlockLen, up to a whole block
Pad(bytes) ==
  LET n == BlockLen - (Len(bytes) % BlockLen)
  IN bytes \o [i \in 1..n |-> n]

RECURSIVE CbcEncrypt(_, _, _)
\* cipher.update + cipher.final: each block is combined with the block before it
\* (the IV for the first one), then enciphered
CbcEncrypt(k, prev, plain) ==
  IF plain = <<>> THEN <<>>
  ELSE LET c == [j \in 1..BlockLen |-> EncryptByte(k, (plain[j] + prev[j]) % 256)]
       IN c \o CbcEncrypt(k, c, SubSeq(plain, BlockLen + 1, Len(plain)))

\* decipher.update: each block deciphered, then the block before it taken out
CbcDecrypt(k, iv, c) ==
  [i \in 1..Len(c) |->
     (DecryptByte(k, c[i]) + 256 - (IF i <= BlockLen THEN iv[i] ELSE c[i - BlockLen])) % 256]

\* a padded plaintext whose last byte stays in it
UnpadKeepsLastByte(plain) ==
  IF Len(plain) = 0 \/ Len(plain) % BlockLen # 0 THEN [ok |-> FALSE, bytes |-> <<>>]
  ELSE [ok |-> TRUE, bytes |-> SubSeq(plain, 1, Len(plain) - 1)]

\* decipher.final: throws unless the data are whole blocks that end with a valid
\* padding, which it removes
Unpad(plain) ==
  IF Len(plain) = 0 \/ Len(plain) % BlockLen # 0 THEN [ok |-> FALSE, bytes |-> <<>>]
  ELSE LET n == plain[Len(plain)]
       IN IF n \in 1..BlockLen /\ \A i \in (Len(plain) - n + 1)..Len(plain) : plain[i] = n
          THEN [ok |-> TRUE, bytes |-> SubSeq(plain, 1, Len(plain) - n)]
          ELSE [ok |-> FALSE, bytes |-> <<>>]

Colon == <<":">>

\* encrypt(text) under DATA_KEY = key, iv being what crypto.randomBytes returned
encrypt(text, key, iv) ==
  LET encrypted == ToHex(CbcEncrypt(key, DerivedIv(key), Pad(Utf8Encode(text))))
  IN ToHex(iv) \o Colon \o encrypted

\* what decrypt(encryptedData) does under DATA_KEY = key: it returns a text
\* (ok) or throws 'Decryption failed: ...'
decrypt(encryptedData, key) ==
  LET parts == Split(encryptedData, ":")
  IN IF Len(parts) # 2 THEN [ok |-> FALSE, text |-> <<>>]
     ELSE LET encrypted == parts[2]
              plain == Unpad(CbcDecrypt(key, DerivedIv(key), FromHex(encrypted)))
          IN IF plain.ok THEN [ok |-> TRUE, text |-> Utf8Decode(plain.bytes)]
             ELSE [ok |-> FALSE, text |-> <<>>]

\* values of DATA_KEY
DataKeys == {3, 200}

\* a byte of crypto.randomBytes
RandomByteValues == {0, 171}

Nonces == [1..BlockLen -> RandomByteValues]

SecretChars == {"A", "X"}

RECURSIVE StringsUpTo(_, _)
StringsUpTo(chars, n) ==
  IF n = 0 THEN {<<>>}
  ELSE LET shorter == StringsUpTo(chars, n - 1)
       IN shorter \cup {<<c>> \o t : c \in chars, t \in {u \in shorter : Len(u) = n - 1}}

Plaintexts == StringsUpTo(SecretChars, MaxSecretLen)

\* the envelope s with the character at position i replaced by c
ReplaceChar(s, i, c) == [s EXCEPT ![i] = c]

\* a caller seals a secret: encrypt(text)
Encrypt(r) ==
  /\ Idle(r)
  /\ \E text \in Plaintexts, key \in DataKeys, iv \in Nonces :
       LET sealed == encrypt(text, key, iv)
       IN SetReq(r, [IdleReq EXCEPT !.kind = "Vault", !.pc = "sealed",
                                    !.doc = [text |-> text, key |-> key, sealed |-> sealed,
                                             envelope |-> sealed,
                                             opened |-> [ok |-> FALSE, text |-> <<>>]]])
  /\ UNCHANGED <<purchases, payments, nextPurchase, nextPayment, year, lastRec>>

\* the stored envelope is changed before it is read back: one hex digit replaced
\* by another, or a separator put in or taken out
Tamper(r) ==
  /\ req[r].pc = "sealed"
  /\ req[r].doc.envelope = req[r].doc.sealed
  /\ \E e \in {ReplaceChar(req[r].doc.sealed, i, c) :
                 i \in 1..Len(req[r].doc.sealed), c \in {"0", "5", "f", ":"}} :
       /\ e # req[r].doc.sealed
       /\ SetReq(r, [req[r] EXCEPT !.doc.envelope = e])
  /\ UNCHANGED <<purchases, payments, nextPurchase, nextPayment, year, lastRec>>

\* a caller opens the envelope: decrypt(encryptedData)
Decrypt(r) ==
  /\ req[r].pc = "sealed"
  /\ LET opened == decrypt(req[r].doc.envelope, req[r].doc.key)
     IN SetReq(r, [req[r] EXCEPT !.pc = IF opened.ok THEN "done" ELSE "failed",
                                 !.err = IF opened.ok THEN "none" ELSE "Decryption failed",
                                 !.doc.opened = opened])
  /\ UNCHANGED <<purchases, payments, nextPurchase, nextPayment, year, lastRec>>

-----------------------------------------------------------------------------
(* Activation credentials on the purchase routes.  activation.credentials is a *)
(* record that holds the fields that are present.                              *)

\* the fields of activation.credentials that PurchaseSchema declares; a strict
\* schema drops every other field of what it is given
CredentialPaths == {"username", "passwordEncrypted"}

Cast(credentials) ==
  [f \in DOMAIN credentials \cap CredentialPaths |-> credentials[f]]

\* activation.credentials of a request body: a username, a password, both or none
BodyCredentials ==
  {<<>>, [username |-> <<"H">>]}
  \cup {[password |-> pw] : pw \in Plaintexts}
  \cup {[username |-> <<"H">>, password |-> pw] : pw \in Plaintexts}

\* a handler that puts the password itself where the sealed one belongs
PasswordStoredAsGiven(credentials, key, iv) ==
  IF "password" \in DOMAIN credentials /\ credentials.password # <<>>
  THEN [f \in (DOMAIN credentials \ {"password"}) \cup {"passwordEncrypted"} |->
          IF f = "passwordEncrypted" THEN credentials.password ELSE credentials[f]]
  ELSE credentials

\* "Handle password encryption if provided": setPassword on a scratch document,
\* delete ...credentials.password, ...credentials.passwordEncrypted = the sealed one
PasswordSealed(credentials, key, iv) ==
  IF "password" \in DOMAIN credentials /\ credentials.password # <<>>
  THEN [f \in (DOMAIN credentials \ {"password"}) \cup {"passwordEncrypted"} |->
          IF f = "passwordEncrypted" THEN encrypt(credentials.password, key, iv)
          ELSE credentials[f]]
  ELSE credentials

\* new Purchase(purchaseData) of a body with activation.credentials
NewSecretPurchase(orderId, credentials) ==
  With(NewPurchase(orderId, MaxTotal, MaxTotal, "OPEN"), [credentials |-> Cast(credentials)])

\* the locals of a request that carries credentials, and its response
SecretFrame(credentials, key, response) ==
  [credentials |-> credentials, key |-> key, response |-> response]

\* POST /purchases with a body that holds activation.credentials; the response
\* is the purchase
PurchasePostSaveSecret(r, limit, keys) ==
  /\ req[r].pc = "pur_save"
  /\ nextPurchase < limit
  /\ IF UniqueOrderId(purchases, 0, req[r].orderId)
     THEN \E credentials \in BodyCredentials, key \in keys, iv \in Nonces :
            LET purchase == NewSecretPurchase(req[r].orderId,
                                              PasswordSealed(credentials, key, iv))
            IN /\ purchases' = [purchases EXCEPT ![nextPurchase + 1] = purchase]
               /\ nextPurchase' = nextPurchase + 1
               /\ SetReq(r, [req[r] EXCEPT !.pc = "done", !.pid = nextPurchase + 1,
                                           !.attempts = @ + 1,
                                           !.doc = SecretFrame(credentials, key, {purchase})])
     ELSE /\ SetReq(r, [req[r] EXCEPT !.pc = "failed", !.err = "DuplicateKey",
                                      !.attempts = @ + 1])
          /\ UNCHANGED <<purchases, nextPurchase>>
  /\ UNCHANGED <<payments, nextPayment, year>>
  /\ Touch

\* PATCH /purchases/:id with a body that holds activation: findByIdAndUpdate sets
\* the activation it is given in place of the stored one
PurchasePatchSecret(r, keys) ==
  /\ Idle(r)
  /\ UNCHANGED <<payments, nextPurchase, nextPayment, year>>
  /\ \E p \in PurchaseIds :
       IF purchases[p] = NoDoc
       THEN /\ SetReq(r, [IdleReq EXCEPT !.kind = "PurchasePatch", !.pc = "failed", !.pid = p,
                                         !.err = "PURCHASE_NOT_FOUND"])
            /\ UNCHANGED purchases
       ELSE \E credentials \in BodyCredentials, key \in keys, iv \in Nonces :
              LET purchase == [purchases[p] EXCEPT
                                 !.credentials = Cast(PasswordSealed(credentials, key, iv))]
              IN /\ purchases' = [purchases EXCEPT ![p] = purchase]
                 /\ SetReq(r, [IdleReq EXCEPT !.kind = "PurchasePatch", !.pc = "done", !.pid = p,
                                              !.doc = SecretFrame(credentials, key, {purchase})])
  /\ Touch

\* GET /purchases: res.json({ purchases, pagination }) with the documents found
PurchaseList(r) ==
  /\ Idle(r)
  /\ SetReq(r, [IdleReq EXCEPT !.kind = "PurchaseList", !.pc = "done",
                               !.doc = SecretFrame(<<>>, 0,
                                         {purchases[p] : p \in {q \in PurchaseIds : purchases[q] # NoDoc}})])
  /\ UNCHANGED <<purchases, payments, nextPurchase, nextPayment, year, lastRec>>

\* purchase.toObject() with hasPassword in place of a passwordEncrypted that is there
WithoutSecret(d) ==
  LET c == d.credentials
  IN IF "passwordEncrypted" \in DOMAIN c /\ c.passwordEncrypted # <<>>
     THEN [d EXCEPT !.credentials =
             [f \in (DOMAIN c \ {"passwordEncrypted"}) \cup {"hasPassword"} |->
                IF f = "hasPassword" THEN TRUE ELSE c[f]]]
     ELSE d

\* GET /purchases/:id: 404 when there is none
PurchaseGet(r) ==
  /\ Idle(r)
  /\ \E p \in PurchaseIds :
       IF purchases[p] = NoDoc
       THEN SetReq(r, [IdleReq EXCEPT !.kind = "PurchaseGet", !.pc = "failed", !.pid = p,
                                      !.err = "PURCHASE_NOT_FOUND"])
       ELSE SetReq(r, [IdleReq EXCEPT !.kind = "PurchaseGet", !.pc = "done", !.pid = p,
                                      !.doc = SecretFrame(<<>>, 0, {WithoutSecret(purchases[p])})])
  /\ UNCHANGED <<purchases, payments, nextPurchase, nextPayment, year, lastRec>>

-----------------------------------------------------------------------------
(* Coupon engine: isValid and calculateDiscount.  A coupon's optional fields   *)
(* are <<>> when not set and <<v>> when set; NaN is <<>>.                      *)

\* the divisor of a PERCENT discount: discountValuePaise is in basis points
BasisPoints == 10000

NaN == <<>>

\* isValid() at the time now that new Date() returns
isValidBoundsOutside(coupon, now) ==
  IF ~coupon.isActive THEN FALSE
  ELSE IF coupon.maxUses # Unset /\ coupon.maxUses[1] # 0 /\ coupon.usedCount >= coupon.maxUses[1]
  THEN FALSE
  ELSE IF coupon.validFrom # Unset /\ now <= coupon.validFrom[1] THEN FALSE
  ELSE IF coupon.validTo # Unset /\ now >= coupon.validTo[1] THEN FALSE
  ELSE TRUE

isValid(coupon, now) ==
  IF ~coupon.isActive THEN FALSE
  ELSE IF coupon.maxUses # Unset /\ coupon.maxUses[1] # 0 /\ coupon.usedCount >= coupon.maxUses[1]
  THEN FALSE
  ELSE IF coupon.validFrom # Unset /\ now < coupon.validFrom[1] THEN FALSE
  ELSE IF coupon.validTo # Unset /\ now > coupon.validTo[1] THEN FALSE
  ELSE TRUE

\* Math.min(a, b)
Min(a, b) == IF a < b THEN a ELSE b

\* calculateDiscount with the quotient rounded up
calculateDiscountRoundedUp(coupon, amountPaise, now) ==
  IF ~isValid(coupon, now) THEN <<0>>
  ELSE IF coupon.discountType = <<"PERCENT">>
  THEN IF coupon.discountValuePaise = Unset THEN NaN
       ELSE <<(amountPaise * coupon.discountValuePaise[1] + BasisPoints - 1) \div BasisPoints>>
  ELSE IF coupon.discountType = <<"FLAT">>
  THEN IF coupon.discountValuePaise = Unset THEN NaN
       ELSE <<Min(coupon.discountValuePaise[1], amountPaise)>>
  ELSE <<0>>

\* calculateDiscount with the FLAT value taken whole, whatever the amount
calculateDiscountFlatUnclamped(coupon, amountPaise, now) ==
  IF ~isValid(coupon, now) THEN <<0>>
  ELSE IF coupon.discountType = <<"PERCENT">>
  THEN IF coupon.discountValuePaise = Unset THEN NaN
       ELSE <<(amountPaise * coupon.discountValuePaise[1]) \div BasisPoints>>
  ELSE IF coupon.discountType = <<"FLAT">>
  THEN coupon.discountValuePaise
  ELSE <<0>>

\* calculateDiscount(amountPaise) at the time now: <<n>>, or NaN when the coupon
\* has a type and no value
calculateDiscount(coupon, amountPaise, now) ==
  IF ~isValid(coupon, now) THEN <<0>>
  ELSE IF coupon.discountType = <<"PERCENT">>
  THEN IF coupon.discountValuePaise = Unset THEN NaN
       ELSE <<(amountPaise * coupon.discountValuePaise[1]) \div BasisPoints>>
  ELSE IF coupon.discountType = <<"FLAT">>
  THEN IF coupon.discountValuePaise = Unset THEN NaN
       ELSE <<Min(coupon.discountValuePaise[1], amountPaise)>>
  ELSE <<0>>

Optional(values) == {Unset} \cup {<<v>> : v \in values}

Times == 0..MaxTime

\* discount values in basis points or paise (the schema's only limit is min: 0,
\* so a PERCENT value may lie above BasisPoints), and amounts in paise
DiscountValues == {0, 1, 1500, 3333, BasisPoints, BasisPoints + 1}

DiscountAmounts == {0, 1, 3, 9999, 200000}

\* the coupons a Coupon collection can hold
Coupons ==
  [isActive : BOOLEAN,
   maxUses : Optional(1..MaxUses),
   usedCount : 0..MaxUses,
   validFrom : Optional(Times),
   validTo : Optional(Times),
   discountType : Optional({"PERCENT", "FLAT"}),
   discountValuePaise : Optional(DiscountValues)]

\* a caller asks coupon.isValid() and coupon.calculateDiscount(amountPaise) at
\* time now
CouponCalculate(r) ==
  /\ Idle(r)
  /\ \E coupon \in Coupons, amountPaise \in DiscountAmounts, now \in Times :
       SetReq(r, [IdleReq EXCEPT !.kind = "Coupon", !.pc = "done",
                                 !.doc = [coupon |-> coupon, amountPaise |-> amountPaise,
                                          now |-> now, valid |-> isValid(coupon, now),
                                          discount |-> calculateDiscount(coupon, amountPaise, now)]])
  /\ UNCHANGED <<purchases, payments, nextPurchase, nextPayment, year, lastRec>>

-----------------------------------------------------------------------------
(* Amounts near Number.MAX_SAFE_INTEGER.  A JavaScript number that holds an    *)
(* integer is [neg, hi, lo] here, of value (hi * LimbBase + lo), negative when *)
(* neg; + and - give the exact result rounded to the nearest double, ties to   *)
(* the even mantissa, as IEEE 754 has it.                                      *)

LimbBase == 2^26

\* Number.MAX_SAFE_INTEGER + 1 = 2^53 is SafeLimitHi * LimbBase
SafeLimitHi == 2^27

\* the number n, for 0 <= n < LimbBase
Wide(n) == [neg |-> FALSE, hi |-> 0, lo |-> n]

\* Number.MAX_SAFE_INTEGER - n, for 0 <= n < LimbBase
MaxSafeMinus(n) == [neg |-> FALSE, hi |-> SafeLimitHi - 1, lo |-> LimbBase - 1 - n]

IsZero(x) == x.hi = 0 /\ x.lo = 0

MagLess(a, b) == a.hi < b.hi \/ (a.hi = b.hi /\ a.lo < b.lo)

\* the exact sum of two numbers of the same sign
MagAdd(a, b) ==
  LET lo == a.lo + b.lo
  IN [neg |-> a.neg, hi |-> a.hi + b.hi + (lo \div LimbBase), lo |-> lo % LimbBase]

\* the exact difference of the magnitudes, for one not below the other
MagSub(a, b) ==
  LET borrow == IF a.lo < b.lo THEN 1 ELSE 0
  IN [neg |-> a.neg, hi |-> a.hi - b.hi - borrow, lo |-> a.lo + borrow * LimbBase - b.lo]

Negated(x) == IF IsZero(x) THEN x ELSE [x EXCEPT !.neg = ~x.neg]

\* the exact sum of two integers
ExactAdd(a, b) ==
  IF a.neg = b.neg THEN MagAdd(a, b)
  ELSE IF MagLess(a, b) THEN MagSub(b, a)
  ELSE LET d == MagSub(a, b) IN IF IsZero(d) THEN [d EXCEPT !.neg = FALSE] ELSE d

RECURSIVE UlpOf(_, _)
\* the distance between the doubles around a magnitude whose high limb is hi:
\* 1 below 2^53, and twice as much in each binade above
UlpOf(hi, u) == IF hi < SafeLimitHi THEN u ELSE UlpOf(hi \div 2, 2 * u)

\* the double nearest to the integer x, ties to the even mantissa
ToDouble(x) ==
  LET u == UlpOf(x.hi, 1)
      r == x.lo % u
      down == x.lo - r
      lo == IF 2 * r < u THEN down
            ELSE IF 2 * r > u THEN down + u
            ELSE IF (down \div u) % 2 = 0 THEN down ELSE down + u
  IN [neg |-> x.neg, hi |-> x.hi + (lo \div LimbBase), lo |-> lo % LimbBase]

\* a + b and a - b of JavaScript numbers
NumberAdd(a, b) == ToDouble(ExactAdd(a, b))

NumberSub(a, b) == ToDouble(ExactAdd(a, Negated(b)))

\* -1, 0 or 1 as x is below, at or above 0
Sign(x) == IF IsZero(x) THEN 0 ELSE IF x.neg THEN -1 ELSE 1

\* Number.isSafeInteger(x)
IsSafeInteger(x) == x.hi < SafeLimitHi

RECURSIVE SumAmountsInOrder(_, _, _, _)
\* filter(p => p.type === t).reduce((sum, p) => sum + p.amountPaise, 0) over the
\* payments 1..n of purchase pid, in the order find() returns them
SumAmountsInOrder(pays, n, pid, t) ==
  IF n = 0 THEN Wide(0)
  ELSE LET sum == SumAmountsInOrder(pays, n - 1, pid, t)
       IN IF pays[n] # NoDoc /\ pays[n].purchaseId = pid /\ pays[n].type = t
          THEN NumberAdd(sum, pays[n].amountPaise)
          ELSE sum

\* amountPaise of a payment: a positive integer, up to Number.MAX_SAFE_INTEGER
LargeAmounts == {Wide(1), Wide(2), MaxSafeMinus(1), MaxSafeMinus(0)}

\* amounts.clientPayTotalPaise and amounts.vendorPayTotalPaise of the purchase
LargeTotals == {Wide(MaxTotal), MaxSafeMinus(0)}

\* new Purchase(purchaseData) with these totals, as the pre-save hook leaves it
NewLargePurchase(orderId, clientPayTotalPaise, vendorPayTotalPaise) ==
  [orderId |-> orderId,
   clientPayTotalPaise |-> clientPayTotalPaise,
   vendorPayTotalPaise |-> vendorPayTotalPaise,
   clientPaidPaise |-> Wide(0), vendorPaidPaise |-> Wide(0),
   clientDuePaise |-> NumberSub(clientPayTotalPaise, Wide(0)),
   vendorDuePaise |-> NumberSub(vendorPayTotalPaise, Wide(0)),
   status |-> "OPEN"]

\* await payment.save() of a payment with a large amount, then
\* updatePurchaseSettlement(req.body.purchaseId)
PaymentPostSaveLarge(r) ==
  /\ req[r].pc = "pay_save"
  /\ \E t \in Types, a \in LargeAmounts :
       payments' = [payments EXCEPT ![req[r].payId] =
                      [purchaseId |-> req[r].pid, type |-> t, amountPaise |-> a]]
  /\ Goto(r, "rec_payments")
  /\ UNCHANGED <<purchases, nextPurchase, nextPayment, year>>
  /\ Touch

\* const payments = await Payment.find({ purchaseId }), and the two sums
RecReadPaymentsLarge(r) ==
  /\ req[r].pc = "rec_payments"
  /\ SetReq(r, [req[r] EXCEPT
                  !.pc = "rec_purchase",
                  !.clientPaidPaise = SumAmountsInOrder(payments, MaxPayments, req[r].pid, "CLIENT"),
                  !.vendorPaidPaise = SumAmountsInOrder(payments, MaxPayments, req[r].pid, "VENDOR")])
  /\ UNCHANGED <<purchases, payments, nextPurchase, nextPayment, year, lastRec>>

\* the document the reconciler holds when it calls save(), its numbers large
ReconciledLarge(d, clientPaidPaise, vendorPaidPaise) ==
  LET clientDuePaise == NumberSub(d.clientPayTotalPaise, clientPaidPaise)
      vendorDuePaise == NumberSub(d.vendorPayTotalPaise, vendorPaidPaise)
  IN [d EXCEPT !.clientPaidPaise = clientPaidPaise,
               !.vendorPaidPaise = vendorPaidPaise,
               !.clientDuePaise = clientDuePaise,
               !.vendorDuePaise = vendorDuePaise,
               !.status = NextStatus(d.status, Sign(clientDuePaise), Sign(vendorDuePaise))]

\* dues, settlement, status, then await purchase.save()
RecSaveLarge(r) ==
  /\ req[r].pc = "rec_save"
  /\ LET p == req[r].pid
         d == ReconciledLarge(req[r].doc, req[r].clientPaidPaise, req[r].vendorPaidPaise)
     IN IF purchases[p] = NoDoc
        THEN /\ Fail(r, "DocumentNotFoundError")
             /\ UNCHANGED <<purchases, lastRec>>
        ELSE /\ purchases' = [purchases EXCEPT ![p] = SaveModified(purchases[p], req[r].doc, d)]
             /\ lastRec' = [pid |-> p, doc |-> purchases'[p],
                             prev |-> IF lastRec.pid = p THEN lastRec.doc ELSE NoDoc]
             /\ Goto(r, "done")
  /\ UNCHANGED <<payments, nextPurchase, nextPayment, year>>

-----------------------------------------------------------------------------
(* Specifications *)

EmptyStore ==
  /\ purchases = [p \in PurchaseIds |-> NoDoc]
  /\ payments = [i \in PaymentIds |-> NoDoc]
  /\ nextPurchase = 0
  /\ nextPayment = 0
  /\ year = FirstYear
  /\ lastRec = NoRec

Init ==
  /\ EmptyStore
  /\ req = [r \in Slots |-> IdleReq]

\* the reconciler and the payment routes, by the request in slot r
SettlementStep(r) ==
  \/ ReconcileCall(r)
  \/ RecReadPayments(r)
  \/ RecReadPurchase(r)
  \/ RecSave(r)
  \/ PaymentPostFind(r)
  \/ PaymentPostSave(r)
  \/ PaymentPatch(r)
  \/ PaymentDeleteFind(r)
  \/ PaymentDeleteRemove(r)

\* One purchase, requests of every kind with every input, one at a time: each
\* request runs to its response before the next one starts.
Next ==
  \/ SettlementStep(1)
  \/ PurchaseGenerateId(1, {PH})
  \/ PurchasePostSave(1, 1, Totals, Statuses)
  \/ PurchasePatch(1, {"amounts", "status"})
  \/ PurchaseDeleteRemove(1)
  \/ PurchaseDeletePayments(1)
  \/ Respond(1)

Spec == Init /\ [][Next]_vars

\* Several purchases, each created OPEN with MaxTotal owed on both sides; the
\* reconciler and the payment routes with every input, one request at a time.
LedgerNext ==
  \/ SettlementStep(1)
  \/ PurchaseGenerateId(1, {PH})
  \/ PurchasePostSave(1, MaxPurchases, {MaxTotal}, {"OPEN"})
  \/ Respond(1)

LedgerSpec == Init /\ [][LedgerNext]_vars

\* Purchase creations, order id changes and deletions, overlapping
CreateNext ==
  \/ \E r \in Slots :
       \/ PurchaseGenerateId(r, Prefixes)
       \/ PurchaseSupplyId(r, SuppliedOrderIds)
       \/ PurchasePostSave(r, MaxPurchases, {MaxTotal}, {"OPEN"})
       \/ PurchasePatch(r, {"orderId"})
       \/ PurchaseDeleteRemove(r)
       \/ PurchaseDeletePayments(r)
       \/ Respond(r)
  \/ NewYear

CreateSpec == Init /\ [][CreateNext]_vars

\* sequence numbers of the order ids a store starts with
SeqNumbers == {1, 9, 10, 99999, 100000}

\* order ids as the sequencer writes them
WellFormedIds ==
  {FormatOrderId(pf, ToString(y), n) : pf \in Prefixes, y \in Years, n \in SeqNumbers}

\* order ids a client supplied whose third part is no number, or not only a number
MalformedIds ==
  {PH \o Hyphen \o ToString(FirstYear) \o Hyphen \o sfx : sfx \in {<<"X">>, <<"7", "X">>}}

RECURSIVE StoreOf(_, _)
\* a Purchase collection that holds one purchase per order id of ids, from id n + 1 on
StoreOf(ids, n) ==
  IF ids = {} THEN [p \in 0..MaxIds |-> NoDoc]
  ELSE LET o == CHOOSE x \in ids : TRUE
       IN [StoreOf(ids \ {o}, n + 1) EXCEPT ![n + 1] = NewPurchase(o, MaxTotal, MaxTotal, "OPEN")]

\* a store of up to MaxIds purchases with any order ids, in any year
SequencerInit ==
  /\ \E ids \in SUBSET (WellFormedIds \cup MalformedIds) :
       /\ Cardinality(ids) <= MaxIds
       /\ purchases = StoreOf(ids, 0)
       /\ nextPurchase = Cardinality(ids)
  /\ payments = [i \in PaymentIds |-> NoDoc]
  /\ nextPayment = 0
  /\ year \in Years
  /\ lastRec = NoRec
  /\ req = [r \in Slots |-> IdleReq]

\* generateOrderId(prefix) called on such a store
SequencerNext == PurchaseGenerateId(1, Prefixes)

SequencerSpec == SequencerInit /\ [][SequencerNext]_vars

-----------------------------------------------------------------------------
(* Properties of the settlement reconciler *)

\* the requests that end with a call of updatePurchaseSettlement(pid)
ReconcilingKinds == {"Reconcile", "PaymentPost", "PaymentPatch", "PaymentDelete"}

\* request r has just returned from a successful updatePurchaseSettlement(req[r].pid)
JustReconciled(r) == req[r].pc = "done" /\ req[r].kind \in ReconcilingKinds

\* the purchase as the reconciliation of request r left it in the store
After(r) == purchases[req[r].pid]

\* the purchase as the reconciler of request r read it
Before(r) == req[r].doc

RECURSIVE SumUpTo(_, _, _)
\* the amounts of the stored payments 1..n of purchase pid and type t, added up
SumUpTo(n, pid, t) ==
  IF n = 0 THEN 0
  ELSE SumUpTo(n - 1, pid, t)
       + (IF payments[n] # NoDoc /\ payments[n].purchaseId = pid /\ payments[n].type = t
          THEN payments[n].amountPaise ELSE 0)

StoredPaid(pid, t) == SumUpTo(MaxPayments, pid, t)

\* C1: right after a successful reconciliation of p the stored purchase has
\* clientDue = clientPayTotal - clientPaid and vendorDue = vendorPayTotal -
\* vendorPaid, whatever the sign of the result.
C1_DuesAreTotalMinusPaid ==
  \A r \in Slots :
    JustReconciled(r) =>
      /\ After(r).clientDuePaise = After(r).clientPayTotalPaise - After(r).clientPaidPaise
      /\ After(r).vendorDuePaise = After(r).vendorPayTotalPaise - After(r).vendorPaidPaise

\* a reconciliation has left an overpaid side, its due negative, and an unpaid one
C1_Witness ==
  \E r \in Slots :
    /\ JustReconciled(r)
    /\ After(r).clientDuePaise < 0
    /\ After(r).vendorDuePaise > 0

\* C2: the reconciler writes clientPaid = the sum of the amounts of the stored
\* payments of this purchase with type CLIENT, and vendorPaid = the sum over its
\* VENDOR payments; other purchases' payments and the other type do not count, and
\* with no payment both are 0.
C2_PaidIsSumOfOwnPaymentsByType ==
  \A r \in Slots :
    JustReconciled(r) =>
      /\ After(r).clientPaidPaise = StoredPaid(req[r].pid, "CLIENT")
      /\ After(r).vendorPaidPaise = StoredPaid(req[r].pid, "VENDOR")

\* a reconciliation of a purchase with a CLIENT payment, while a payment of the
\* other type belongs to another purchase
C2_Witness ==
  \E r \in Slots : \E i, j \in PaymentIds :
    /\ JustReconciled(r)
    /\ payments[i] # NoDoc /\ payments[j] # NoDoc
    /\ payments[i].purchaseId = req[r].pid /\ payments[i].type = "CLIENT"
    /\ payments[j].purchaseId # req[r].pid /\ payments[j].type = "VENDOR"
    /\ purchases[payments[j].purchaseId] # NoDoc
    /\ After(r).clientPaidPaise > 0 /\ After(r).vendorPaidPaise = 0

\* C3: after a reconciliation of a purchase that was OPEN or COMPLETED, both dues
\* <= 0 imply that the stored status is COMPLETED.
C3_SettledIsCompleted ==
  \A r \in Slots :
    (/\ JustReconciled(r)
     /\ Before(r).status \in {"OPEN", "COMPLETED"}
     /\ After(r).clientDuePaise <= 0
     /\ After(r).vendorDuePaise <= 0)
    => After(r).status = "COMPLETED"

\* an OPEN purchase became COMPLETED with one due exactly 0 and the other negative
C3_Witness ==
  \E r \in Slots :
    /\ JustReconciled(r)
    /\ Before(r).status = "OPEN"
    /\ After(r).status = "COMPLETED"
    /\ After(r).clientDuePaise = 0
    /\ After(r).vendorDuePaise < 0

\* C4: after a reconciliation of a purchase that was COMPLETED, a due > 0 implies
\* that the stored status is OPEN; a purchase that was OPEN with a due > 0 stays
\* OPEN.
C4_OutstandingDueReopens ==
  \A r \in Slots :
    (/\ JustReconciled(r)
     /\ Before(r).status \in {"OPEN", "COMPLETED"}
     /\ (After(r).clientDuePaise > 0 \/ After(r).vendorDuePaise > 0))
    => After(r).status = "OPEN"

\* a COMPLETED purchase went back to OPEN after one of its payments was deleted
C4_Witness ==
  \E r \in Slots :
    /\ JustReconciled(r)
    /\ req[r].kind = "PaymentDelete"
    /\ Before(r).status = "COMPLETED"
    /\ After(r).status = "OPEN"

\* C5: a reconciliation never changes the status of a CANCELLED purchase, whatever
\* the dues, while it still stores the recomputed settlement; and it never sets a
\* status to CANCELLED.
C5_CancelledIsNeverTouched ==
  \A r \in Slots :
    JustReconciled(r) =>
      /\ (Before(r).status = "CANCELLED" => After(r).status = "CANCELLED")
      /\ (Before(r).status # "CANCELLED" => After(r).status # "CANCELLED")
      /\ After(r).clientPaidPaise = StoredPaid(req[r].pid, "CLIENT")
      /\ After(r).vendorPaidPaise = StoredPaid(req[r].pid, "VENDOR")

\* C6: when a payment create, update or delete request has completed with no
\* other request overlapping it, every purchase whose payments it changed (the one
\* the payment belongs to now, and the one it was moved away from) has clientPaid
\* and vendorPaid equal to the sums over its stored payments.
C6_EveryChangedPurchaseReconciled ==
  \A r \in Slots :
    (req[r].pc = "done" /\ req[r].kind \in {"PaymentPost", "PaymentPatch", "PaymentDelete"})
    => \A q \in {req[r].pid, req[r].oldPid} :
         purchases[q] # NoDoc =>
           /\ purchases[q].clientPaidPaise = StoredPaid(q, "CLIENT")
           /\ purchases[q].vendorPaidPaise = StoredPaid(q, "VENDOR")

\* C7: a reconciliation that follows a reconciliation of the same purchase, with no
\* change of the store between the two, leaves the purchase (settlement and
\* status) exactly as the first one left it.
C7_ReconcileTwiceIsReconcileOnce ==
  lastRec.prev # NoDoc => lastRec.doc = lastRec.prev

\* two reconciliations in a row, nothing changed between them, of a purchase with
\* client payments on it that they leave COMPLETED
C7_Witness ==
  /\ lastRec.prev # NoDoc
  /\ lastRec.doc.clientPaidPaise > 0
  /\ lastRec.doc.status = "COMPLETED"

-----------------------------------------------------------------------------
(* Properties of purchase creation and of the order ids *)

\* C8: no two stored purchases hold the same orderId, under every interleaving of
\* creations (with a generated or a supplied order id), order id changes and
\* deletions.
C8_OrderIdsAreUnique ==
  \A p, q \in DOMAIN purchases :
    (p # q /\ purchases[p] # NoDoc /\ purchases[q] # NoDoc)
    => purchases[p].orderId # purchases[q].orderId

\* two overlapping creators were given the same order id by the sequencer; one has
\* stored its purchase and the other was refused
C8_Witness ==
  \E r, t \in Slots :
    /\ r # t
    /\ req[r].kind = "PurchasePost" /\ req[t].kind = "PurchasePost"
    /\ req[r].prefix # <<>> /\ req[t].prefix # <<>>
    /\ req[r].orderId = req[t].orderId
    /\ req[r].pc = "done" /\ purchases[req[r].pid] # NoDoc
    /\ req[t].pc = "failed" /\ req[t].err = "DuplicateKey"

\* C9: a creation with a generated order id that hits a duplicate regenerates the
\* sequence number and tries again, up to 3 attempts: it fails with a conflict only
\* after its third attempt.
C9_ConflictOnlyAfterThreeAttempts ==
  \A r \in Slots :
    (/\ req[r].kind = "PurchasePost"
     /\ req[r].prefix # <<>>
     /\ req[r].pc = "failed"
     /\ req[r].err = "DuplicateKey")
    => req[r].attempts = 3

\* the highest sequence number among the stored well-formed order ids of prefix pf
\* and year y, 0 when there is none
HighestNumber(pf, y) ==
  LET ns == {n \in SeqNumbers : FormatOrderId(pf, ToString(y), n) \in OrderIds(purchases)}
  IN IF ns = {} THEN 0 ELSE CHOOSE n \in ns : \A m \in ns : m <= n

\* C10: on a store whose order ids are all well-formed, generateOrderId(prefix)
\* returns prefix-year-n, n padded to 5 digits, with n one more than the
\* numerically highest sequence number stored for this prefix and year (1 when
\* there is none); other prefixes and years do not count.
C10_NextIsHighestPlusOne ==
  \A r \in Slots :
    (/\ req[r].kind = "PurchasePost"
     /\ req[r].pc = "pur_save"
     /\ req[r].prefix # <<>>
     /\ OrderIds(purchases) \subseteq WellFormedIds)
    => req[r].orderId =
         FormatOrderId(req[r].prefix, ToString(year), HighestNumber(req[r].prefix, year) + 1)

\* the stored order ids of prefix pf and year y whose third part parseInt cannot read
UnparsableIds(pf, y) ==
  {id \in MatchingIds(OrderIds(purchases), pf, ToString(y)) :
     Len(Split(id, "-")) >= 3 /\ isNaN(ParseInt(Split(id, "-")[3]))}

\* C11: when the store holds an order id of this prefix and year whose suffix does
\* not parse as a number, and every other stored id is well-formed with a sequence
\* number of at most PadWidth digits, generateOrderId(prefix) skips the unparsable
\* id: it returns one more than the highest valid sequence number of the prefix and
\* year, and 00001 only when there is no valid one.
C11_UnparsableSuffixIsSkipped ==
  \A r \in Slots :
    (/\ req[r].kind = "PurchasePost"
     /\ req[r].pc = "pur_save"
     /\ req[r].prefix # <<>>
     /\ UnparsableIds(req[r].prefix, year) # {}
     /\ \A id \in OrderIds(purchases) :
          \/ id \in UnparsableIds(req[r].prefix, year)
          \/ \E pf \in Prefixes, y \in Years, n \in SeqNumbers :
               id = FormatOrderId(pf, ToString(y), n) /\ Len(ToString(n)) <= PadWidth)
    => req[r].orderId =
         FormatOrderId(req[r].prefix, ToString(year), HighestNumber(req[r].prefix, year) + 1)

-----------------------------------------------------------------------------
(* Properties of the derived dates *)

\* One purchase, created with every purchase date, start date, duration and warranty
DatedNext ==
  \/ PurchaseSupplyId(1, SuppliedOrderIds)
  \/ PurchasePostSaveDated(1, 1, {Unset} \cup {dt \in Dates : dt[3] > 29})
  \/ Respond(1)

DatedSpec == Init /\ [][DatedNext]_vars

\* start advanced by n calendar months: the same day of the month n months later,
\* clamped to the last day of that month
ClampedAdvance(start, n) ==
  LET y == start[1] + ((start[2] + n) \div 12)
      m == (start[2] + n) % 12
  IN <<y, m, IF start[3] > DaysInMonth(y, m) THEN DaysInMonth(y, m) ELSE start[3]>>

\* the stored purchases that were saved with their dates
DatedPurchases == {p \in DOMAIN purchases : purchases[p] # NoDoc /\ "purchaseDate" \in DOMAIN purchases[p]}

\* C12: a purchase saved with durationMonths >= 1 has validity.endDate on the same
\* day of the month durationMonths months after its start date (validity.startDate,
\* or purchaseDate without one), clamped to the last day of that month; it never
\* rolls into the month after.
C12_ValidityEndIsClamped ==
  \A p \in DatedPurchases :
    LET d == purchases[p]
    IN d.durationMonths # Unset =>
         d.validityEndDate =
           ClampedAdvance(IF d.startDate # Unset THEN d.startDate ELSE d.purchaseDate,
                          d.durationMonths[1])

\* C13: a saved purchase has warranty.endDate set exactly when hasWarranty is true
\* and months is set (0 included), and then it is purchaseDate advanced by months
\* calendar months.
C13_WarrantyEndWhenSet ==
  \A p \in DatedPurchases :
    LET d == purchases[p]
    IN IF d.hasWarranty /\ d.months # Unset
       THEN d.warrantyEndDate = ClampedAdvance(d.purchaseDate, d.months[1])
       ELSE d.warrantyEndDate = Unset

-----------------------------------------------------------------------------
(* Properties of the credential vault *)

\* Secrets sealed and opened by two callers; the envelope of the first may be
\* changed in between
VaultNext ==
  \/ \E r \in Slots : Encrypt(r) \/ Decrypt(r) \/ Respond(r)
  \/ Tamper(1)

VaultSpec == Init /\ [][VaultNext]_vars

\* request r has called decrypt on the envelope it holds
Opened(r) == req[r].kind = "Vault" /\ req[r].pc \in {"done", "failed"}

\* the nonce part and the ciphertext part of an envelope with one separator
NoncePart(e) == Split(e, ":")[1]

CipherPart(e) == Split(e, ":")[2]

\* C14: decrypt(encrypt(p)) returns p, for every plaintext p and a fixed key.
C14_OpenOfSealIsPlaintext ==
  \A r \in Slots :
    (Opened(r) /\ req[r].doc.envelope = req[r].doc.sealed)
    => (req[r].doc.opened.ok /\ req[r].doc.opened.text = req[r].doc.text)

\* a secret of MaxSecretLen characters, whole blocks of them, came back from its
\* own envelope
C14_Witness ==
  \E r \in Slots :
    /\ Opened(r)
    /\ req[r].doc.envelope = req[r].doc.sealed
    /\ Len(req[r].doc.text) = MaxSecretLen
    /\ req[r].doc.opened.text = req[r].doc.text

\* C15: decrypt of an envelope that differs from a sealed one in any byte, of the
\* nonce part or of the ciphertext part, or that is malformed, fails; it never
\* returns a plaintext.
C15_ModifiedEnvelopeFails ==
  \A r \in Slots :
    (Opened(r) /\ req[r].doc.envelope # req[r].doc.sealed) => ~req[r].doc.opened.ok

\* C16: the ciphertext part depends on the nonce stored in the envelope: two
\* envelopes of the same plaintext under the same key with different nonce parts
\* have different ciphertext parts.
C16_CiphertextDependsOnNonce ==
  \A r, t \in Slots :
    (/\ req[r].kind = "Vault" /\ req[t].kind = "Vault"
     /\ req[r].doc.text = req[t].doc.text
     /\ req[r].doc.key = req[t].doc.key
     /\ NoncePart(req[r].doc.sealed) # NoncePart(req[t].doc.sealed))
    => CipherPart(req[r].doc.sealed) # CipherPart(req[t].doc.sealed)

-----------------------------------------------------------------------------
(* Properties of the activation credentials on the purchase routes *)

\* Purchases created and updated with credentials, listed and read, one request
\* at a time
SecretNext ==
  \/ PurchaseSupplyId(1, SuppliedOrderIds)
  \/ PurchasePostSaveSecret(1, MaxPurchases, DataKeys)
  \/ PurchasePatchSecret(1, DataKeys)
  \/ PurchaseList(1)
  \/ PurchaseGet(1)
  \/ Respond(1)

SecretSpec == Init /\ [][SecretNext]_vars

\* C17: no response of the purchase list or of the read by id holds a
\* passwordEncrypted; a purchase that has one is returned with hasPassword in
\* its place.
C17_ReadsHoldNoSealedSecret ==
  \A r \in Slots :
    (req[r].kind \in {"PurchaseList", "PurchaseGet"} /\ req[r].pc = "done")
    => \A d \in req[r].doc.response :
         /\ "passwordEncrypted" \notin DOMAIN d.credentials
         /\ (\E p \in PurchaseIds :
               /\ purchases[p] # NoDoc
               /\ purchases[p].orderId = d.orderId
               /\ "passwordEncrypted" \in DOMAIN purchases[p].credentials)
            => ("hasPassword" \in DOMAIN d.credentials /\ d.credentials.hasPassword)

\* a purchase creation or update has just stored the purchase of its response
JustWrote(r) == req[r].kind \in {"PurchasePost", "PurchasePatch"} /\ req[r].pc = "done"

\* C18: after a purchase creation or update no field of the stored
\* activation.credentials holds the password of the request, and when the
\* request held a non-empty password the stored passwordEncrypted is an
\* envelope of it.
C18_PasswordIsStoredSealedOnly ==
  \A r \in Slots :
    (JustWrote(r) /\ "password" \in DOMAIN req[r].doc.credentials)
    => LET stored == purchases[req[r].pid].credentials
           password == req[r].doc.credentials.password
       IN /\ "password" \notin DOMAIN stored
          /\ \A f \in DOMAIN stored : stored[f] # password
          /\ password # <<>> =>
               /\ "passwordEncrypted" \in DOMAIN stored
               /\ \E iv \in Nonces :
                    stored.passwordEncrypted = encrypt(password, req[r].doc.key, iv)
               /\ decrypt(stored.passwordEncrypted, req[r].doc.key).text = password

\* an update that held a username and a password of MaxSecretLen characters has
\* stored the username and a sealed password
C18_Witness ==
  \E r \in Slots :
    /\ JustWrote(r)
    /\ req[r].kind = "PurchasePatch"
    /\ DOMAIN req[r].doc.credentials = {"username", "password"}
    /\ Len(req[r].doc.credentials.password) = MaxSecretLen
    /\ DOMAIN purchases[req[r].pid].credentials = {"username", "passwordEncrypted"}

-----------------------------------------------------------------------------
(* Properties of the coupon engine *)

\* isValid and calculateDiscount called on every coupon, amount and time
CouponNext ==
  \/ CouponCalculate(1)
  \/ Respond(1)

CouponSpec == Init /\ [][CouponNext]_vars

\* request r is a call of the coupon methods that has returned
CouponCalled(r) == req[r].kind = "Coupon" /\ req[r].pc = "done"

\* C19: isValid is false for an inactive coupon, false when maxUses is set and
\* usedCount >= maxUses, false when validFrom is set and now < validFrom, false
\* when validTo is set and now > validTo, and true otherwise: validFrom and
\* validTo themselves are inside the window.
C19_IsValidAsSpecified ==
  \A r \in Slots :
    CouponCalled(r) =>
      LET c == req[r].doc.coupon
          now == req[r].doc.now
      IN req[r].doc.valid <=>
           /\ c.isActive
           /\ ~(c.maxUses # Unset /\ c.usedCount >= c.maxUses[1])
           /\ ~(c.validFrom # Unset /\ now < c.validFrom[1])
           /\ ~(c.validTo # Unset /\ now > c.validTo[1])

\* a coupon with uses left was found valid at the very end of its window
C19_Witness ==
  \E r \in Slots :
    /\ CouponCalled(r)
    /\ req[r].doc.valid
    /\ req[r].doc.coupon.maxUses # Unset
    /\ req[r].doc.coupon.validFrom # Unset
    /\ req[r].doc.coupon.validTo = <<req[r].doc.now>>

\* C20: for a valid PERCENT coupon with a discount value, calculateDiscount is the
\* greatest integer not above amount * discountValue / 10000; for a coupon that is
\* not valid it is 0.
C20_PercentIsFloorOfBasisPoints ==
  \A r \in Slots :
    CouponCalled(r) =>
      LET c == req[r].doc.coupon
          amount == req[r].doc.amountPaise
          discount == req[r].doc.discount
      IN /\ ~req[r].doc.valid => discount = <<0>>
         /\ (req[r].doc.valid /\ c.discountType = <<"PERCENT">> /\ c.discountValuePaise # Unset)
            => /\ discount # NaN
               /\ discount[1] * BasisPoints <= amount * c.discountValuePaise[1]
               /\ amount * c.discountValuePaise[1] < (discount[1] + 1) * BasisPoints

\* a valid PERCENT coupon gave a discount above 0 where the quotient is no integer
C20_Witness ==
  \E r \in Slots :
    /\ CouponCalled(r)
    /\ req[r].doc.valid
    /\ req[r].doc.coupon.discountType = <<"PERCENT">>
    /\ req[r].doc.coupon.discountValuePaise # Unset
    /\ req[r].doc.discount # NaN
    /\ req[r].doc.discount[1] > 0
    /\ (req[r].doc.amountPaise * req[r].doc.coupon.discountValuePaise[1]) % BasisPoints # 0

\* C21: for a valid FLAT coupon with a discount value, calculateDiscount is the
\* smaller of the discount value and the amount, for every amount of 0 or more:
\* the discount is never above the amount.
C21_FlatIsMinOfValueAndAmount ==
  \A r \in Slots :
    (/\ CouponCalled(r)
     /\ req[r].doc.valid
     /\ req[r].doc.coupon.discountType = <<"FLAT">>
     /\ req[r].doc.coupon.discountValuePaise # Unset)
    => LET value == req[r].doc.coupon.discountValuePaise[1]
           amount == req[r].doc.amountPaise
       IN /\ req[r].doc.discount = <<IF value <= amount THEN value ELSE amount>>
          /\ req[r].doc.discount[1] <= amount

\* a valid FLAT coupon worth more than the amount gave the amount itself
C21_Witness ==
  \E r \in Slots :
    /\ CouponCalled(r)
    /\ req[r].doc.valid
    /\ req[r].doc.coupon.discountType = <<"FLAT">>
    /\ req[r].doc.coupon.discountValuePaise # Unset
    /\ req[r].doc.coupon.discountValuePaise[1] > req[r].doc.amountPaise
    /\ req[r].doc.amountPaise > 0
    /\ req[r].doc.discount = <<req[r].doc.amountPaise>>

\* C30: for every coupon that can be stored with a discount value (of type
\* PERCENT, FLAT or none; a PERCENT value may be above 10000 basis points) and
\* every amount of 0 or more, calculateDiscount returns a number d with
\* 0 <= d <= amount.
C30_DiscountNeverAboveAmount ==
  \A r \in Slots :
    (CouponCalled(r) /\ req[r].doc.coupon.discountValuePaise # Unset)
    => /\ req[r].doc.discount # NaN
       /\ 0 <= req[r].doc.discount[1]
       /\ req[r].doc.discount[1] <= req[r].doc.amountPaise

-----------------------------------------------------------------------------
(* Properties of the reconciler's failures *)

\* request r is inside updatePurchaseSettlement, called on its own
InsideReconcile(r) ==
  req[r].kind = "Reconcile" /\ req[r].pc \in {"rec_payments", "rec_purchase"}

\* C22: updatePurchaseSettlement(id) for an id that resolves to no purchase
\* fails with 'Purchase not found' and writes nothing: none of its steps changes
\* a purchase or a payment.
C22_NotFoundWritesNothing ==
  [][\A r \in Slots :
       (InsideReconcile(r) /\ purchases[req[r].pid] = NoDoc /\ req'[r] # req[r])
       => /\ purchases' = purchases
          /\ payments' = payments
          /\ req[r].pc = "rec_purchase" =>
               (req'[r].pc = "failed" /\ req'[r].err = "Purchase not found")]_vars

\* a call for an id that resolves to no purchase has failed, while the store
\* holds a purchase and a payment that it could have written to
C22_Witness ==
  \E r \in Slots :
    /\ req[r].kind = "Reconcile"
    /\ req[r].pc = "failed"
    /\ req[r].err = "Purchase not found"
    /\ purchases[req[r].pid] = NoDoc
    /\ \E p \in PurchaseIds : purchases[p] # NoDoc
    /\ \E i \in PaymentIds : payments[i] # NoDoc

-----------------------------------------------------------------------------
(* Properties of the reconciler on large amounts *)

\* One purchase with payments whose amounts go up to Number.MAX_SAFE_INTEGER,
\* created and deleted one request at a time
LargeInit ==
  /\ \E c \in LargeTotals, v \in LargeTotals :
       purchases = [p \in PurchaseIds |->
                      IF p = 1
                      THEN NewLargePurchase(FormatOrderId(PH, ToString(FirstYear), 1), c, v)
                      ELSE NoDoc]
  /\ nextPurchase = 1
  /\ payments = [i \in PaymentIds |-> NoDoc]
  /\ nextPayment = 0
  /\ year = FirstYear
  /\ lastRec = NoRec
  /\ req = [r \in Slots |-> IdleReq]

LargeNext ==
  \/ PaymentPostFind(1)
  \/ PaymentPostSaveLarge(1)
  \/ PaymentDeleteFind(1)
  \/ PaymentDeleteRemove(1)
  \/ RecReadPaymentsLarge(1)
  \/ RecReadPurchase(1)
  \/ RecSaveLarge(1)
  \/ Respond(1)

LargeSpec == LargeInit /\ [][LargeNext]_vars

RECURSIVE ExactSumUpTo(_, _, _)
\* the amounts of the stored payments 1..n of purchase pid and type t, added up
\* as integers
ExactSumUpTo(n, pid, t) ==
  IF n = 0 THEN Wide(0)
  ELSE LET sum == ExactSumUpTo(n - 1, pid, t)
       IN IF payments[n] # NoDoc /\ payments[n].purchaseId = pid /\ payments[n].type = t
          THEN ExactAdd(sum, payments[n].amountPaise)
          ELSE sum

\* C23: the reconciler never completes while the payments of one type of the
\* purchase add up to more than Number.MAX_SAFE_INTEGER, and what it has stored
\* as a paid total is the exact sum, a safe integer.
C23_UnsafeSumIsRejected ==
  \A r \in Slots :
    JustReconciled(r) =>
      /\ IsSafeInteger(ExactSumUpTo(MaxPayments, req[r].pid, "CLIENT"))
      /\ IsSafeInteger(ExactSumUpTo(MaxPayments, req[r].pid, "VENDOR"))
      /\ After(r).clientPaidPaise = ExactSumUpTo(MaxPayments, req[r].pid, "CLIENT")
      /\ After(r).vendorPaidPaise = ExactSumUpTo(MaxPayments, req[r].pid, "VENDOR")

-----------------------------------------------------------------------------
(* Properties that every stored purchase is to have *)

StoredPurchases == {p \in PurchaseIds : purchases[p] # NoDoc}

\* C24: in every reachable state every stored purchase has clientDue =
\* clientPayTotal - clientPaid and vendorDue = vendorPayTotal - vendorPaid: after
\* its creation, after every purchase update (one that changes the totals
\* included) and after every payment mutation.
C24_StoredDuesAreTotalMinusPaid ==
  \A p \in StoredPurchases :
    /\ purchases[p].clientDuePaise = purchases[p].clientPayTotalPaise - purchases[p].clientPaidPaise
    /\ purchases[p].vendorDuePaise = purchases[p].vendorPayTotalPaise - purchases[p].vendorPaidPaise

\* C29: in every reachable state a stored purchase whose status is COMPLETED has
\* clientDue <= 0 and vendorDue <= 0, whether a creation, an update or a
\* reconciliation wrote it last.
C29_CompletedHasNoDue ==
  \A p \in StoredPurchases :
    purchases[p].status = "COMPLETED" =>
      (purchases[p].clientDuePaise <= 0 /\ purchases[p].vendorDuePaise <= 0)

-----------------------------------------------------------------------------
(* Properties of overlapping requests *)

\* every request has run to its end
Quiescent == \A r \in Slots : req[r].pc \in {"idle", "done", "failed"}

\* One purchase is created; payment creations and purchase deletions overlap
CascadeNext ==
  \/ PurchaseGenerateId(1, {PH})
  \/ PurchasePostSave(1, 1, {MaxTotal}, {"OPEN"})
  \/ \E r \in Slots :
       \/ PaymentPostFind(r)
       \/ PaymentPostSave(r)
       \/ RecReadPayments(r)
       \/ RecReadPurchase(r)
       \/ RecSave(r)
       \/ PurchaseDeleteRemove(r)
       \/ PurchaseDeletePayments(r)
       \/ Respond(r)

CascadeSpec == Init /\ [][CascadeNext]_vars

\* C25: once a purchase deletion and every request that overlapped it have
\* finished, no stored payment references a purchase that is not stored: the
\* deletion leaves no orphaned payment, also when a payment creation checked the
\* purchase before the deletion and saved its payment after it.
C25_DeletionLeavesNoOrphan ==
  Quiescent =>
    \A i \in PaymentIds :
      payments[i] # NoDoc => purchases[payments[i].purchaseId] # NoDoc

\* a call of updatePurchaseSettlement on its own has started and not yet been
\* answered
Correcting == \E r \in Slots : req[r].kind = "Reconcile" /\ ~Idle(r)

\* no request but r is between two of its store calls
NoOtherInFlight(r) == \A t \in Slots \ {r} : req[t].pc \in {"idle", "done", "failed"}

\* one purchase as POST /purchases left it, OPEN or COMPLETED, not yet paid
RaceInit ==
  /\ \E c \in Totals, v \in Totals, st \in {"OPEN", "COMPLETED"} :
       purchases = [p \in PurchaseIds |->
                      IF p = 1
                      THEN NewPurchase(FormatOrderId(PH, ToString(FirstYear), 1), c, v, st)
                      ELSE NoDoc]
  /\ nextPurchase = 1
  /\ payments = [i \in PaymentIds |-> NoDoc]
  /\ nextPayment = 0
  /\ year = FirstYear
  /\ lastRec = NoRec
  /\ req = [r \in Slots |-> IdleReq]

\* Payment creations and deletions overlap, each with its reconciliation; a call
\* of updatePurchaseSettlement on its own starts when no other request is in
\* flight and runs alone to its answer
RaceNext ==
  \E r \in Slots :
    \/ ~Correcting /\ PaymentPostFind(r)
    \/ PaymentPostSave(r)
    \/ ~Correcting /\ PaymentDeleteFind(r)
    \/ PaymentDeleteRemove(r)
    \/ RecReadPayments(r)
    \/ RecReadPurchase(r)
    \/ RecSave(r)
    \/ NoOtherInFlight(r) /\ ReconcileCall(r)
    \/ Respond(r)

RaceSpec == RaceInit /\ [][RaceNext]_vars

\* the settlement of the stored purchase p is what its stored payments make it
SettlementIsCurrent(p) ==
  LET d == purchases[p]
  IN /\ d.clientPaidPaise = StoredPaid(p, "CLIENT")
     /\ d.vendorPaidPaise = StoredPaid(p, "VENDOR")
     /\ d.clientDuePaise = d.clientPayTotalPaise - d.clientPaidPaise
     /\ d.vendorDuePaise = d.vendorPayTotalPaise - d.vendorPaidPaise
     /\ d.status = IF d.clientDuePaise <= 0 /\ d.vendorDuePaise <= 0 THEN "COMPLETED" ELSE "OPEN"

\* C26: after any interleaving of payment mutations and their reconciliations, a
\* reconciliation of the purchase that starts when all payment writes are done and
\* no other reconciliation is in flight leaves clientPaid and vendorPaid equal to
\* the sums over all stored payments of the purchase, the dues total minus paid,
\* and the status COMPLETED when both dues are <= 0 and OPEN otherwise.
C26_NextReconciliationCorrects ==
  \A r \in Slots :
    (req[r].kind = "Reconcile" /\ req[r].pc = "done") => SettlementIsCurrent(req[r].pid)

\* a reconciliation on its own has put right a purchase whose paid amounts two
\* overlapping payment creations had left below the sum of its payments
C26_Witness ==
  \E r \in Slots :
    /\ req[r].kind = "Reconcile"
    /\ req[r].pc = "done"
    /\ Before(r).clientPaidPaise + Before(r).vendorPaidPaise
         < StoredPaid(req[r].pid, "CLIENT") + StoredPaid(req[r].pid, "VENDOR")
    /\ \A i \in PaymentIds : payments[i] # NoDoc
    /\ SettlementIsCurrent(req[r].pid)

\* C28: when two payment mutations of the same purchase have overlapped and both
\* have completed, the stored clientPaid and vendorPaid are the sums over all
\* stored payments of the purchase, and dues and status agree with them.
C28_NoLostUpdateAtQuiescence ==
  \A r, t \in Slots :
    (/\ r # t
     /\ req[r].kind \in {"PaymentPost", "PaymentDelete"} /\ req[r].pc = "done"
     /\ req[t].kind \in {"PaymentPost", "PaymentDelete"} /\ req[t].pc = "done"
     /\ req[r].pid = req[t].pid)
    => SettlementIsCurrent(req[r].pid)

-----------------------------------------------------------------------------
(* Properties of the derived dates under updates *)

\* one purchase as POST /purchases left it, with its dates
DatedPatchInit ==
  /\ \E purchaseDate \in PatchDates, validity \in BodyValidities,
        hasWarranty \in BOOLEAN, months \in {Unset, <<1>>} :
       purchases = [p \in PurchaseIds |->
                      IF p = 1
                      THEN PreSaveDates(NewDatedPurchase(FormatOrderId(PH, ToString(FirstYear), 1),
                                                         purchaseDate, validity.startDate,
                                                         validity.durationMonths,
                                                         hasWarranty, months))
                      ELSE NoDoc]
  /\ nextPurchase = 1
  /\ payments = [i \in PaymentIds |-> NoDoc]
  /\ nextPayment = 0
  /\ year = FirstYear
  /\ lastRec = NoRec
  /\ req = [r \in Slots |-> IdleReq]

\* The purchase is updated with new dates, one request at a time
DatedPatchNext ==
  \/ PurchasePatchDated(1)
  \/ Respond(1)

DatedPatchSpec == DatedPatchInit /\ [][DatedPatchNext]_vars

\* C27: every stored purchase with durationMonths set has validity.endDate equal
\* to what the pre-save hook computes from its current start date
\* (validity.startDate, or purchaseDate without one) and durationMonths, after
\* its creation and after every update of purchaseDate, validity.startDate or
\* validity.durationMonths.
C27_EndDateFollowsEveryWrite ==
  \A p \in DatedPurchases :
    LET d == purchases[p]
    IN d.durationMonths # Unset =>
         d.validityEndDate =
           AddMonths(IF d.startDate # Unset THEN d.startDate ELSE d.purchaseDate,
                     d.durationMonths[1])

=============================================================================
